---------------------------- MODULE Spec2Model ----------------------------
(***************************************************************************)
(* Model of the investment advisor: InvestmentAdvisor                      *)
(* (src/investment_logic.py) and the /api/calculate handler (src/app.py).  *)
(*                                                                         *)
(* Numbers.  The program computes with Python floats.  The model computes  *)
(* with exact non-negative fractions n / 3600^k, written as a digit        *)
(* sequence in radix 3600 with k fractional digits.  Every literal of the  *)
(* program (0.10, 0.05, 0.02, 0.2 .. 0.8, 0.6, 0.4, 83.0) and the division *)
(* by 12 are exact in this form, so sums, products and comparisons are     *)
(* those of the real numbers the floats stand for; binary rounding of the  *)
(* last bit is not modelled.  Amounts, periods and increments are drawn    *)
(* from non-negative values.                                               *)
(***************************************************************************)
EXTENDS Naturals, Integers, Sequences, FiniteSets, TLC

VARIABLES
    \* arguments of the call in progress
    amount, time_period, investment_type, risk_tolerance, monthly_increment,
    \* calculate_investment_returns, run step by step
    ppc, total_amount, current_monthly, year, month, returned,
    \* the /api/calculate request and the advisor it constructs
    pc, risk_profiles, usd_to_inr_rate, indian_stocks, mutual_funds, bonds,
    expected_return, stock_symbols, sym_i, stock_data, response,
    \* the record of the request: what it has done, and what the data source answered
    events, answers

argvars == <<amount, time_period, investment_type, risk_tolerance, monthly_increment>>
projvars == <<ppc, total_amount, current_monthly, year, month, returned>>
engvars == <<risk_profiles, usd_to_inr_rate, indian_stocks, mutual_funds, bonds>>
reqvars == <<pc, expected_return, stock_symbols, sym_i, stock_data, response, events, answers>>
vars == <<argvars, projvars, engvars, reqvars>>

----------------------------------------------------------------------------
(* Bounds of the model *)

MaxYears == 2

\* the values a request carries
Amounts == {0, 7, 100000}
Periods == 0 .. MaxYears
KnownModels == {"fixed", "floating", "fixed-float"}
Models == KnownModels \cup {"lumpsum"}
KnownRiskTags == {"conservative", "moderate", "aggressive"}
RiskTags == KnownRiskTags \cup {"speculative"}

----------------------------------------------------------------------------
(* Exact arithmetic standing for Python's float +, *, / and comparisons *)

Radix == 60 * 60

RECURSIVE BigOfNat(_)
BigOfNat(x) == IF x = 0 THEN <<>> ELSE <<x % Radix>> \o BigOfNat(x \div Radix)

\* a + b + c digit by digit, for digit sequences of one length n >= 1 and a carry c:
\* <<the n low digits, the carry out>>.  The low half is added first and its carry
\* goes into the high half.
RECURSIVE AddDigits(_, _, _)
AddDigits(a, b, c) ==
    IF Len(a) = 1
    THEN << <<(a[1] + b[1] + c) % Radix>>, (a[1] + b[1] + c) \div Radix >>
    ELSE LET h == Len(a) \div 2
             lo == AddDigits(SubSeq(a, 1, h), SubSeq(b, 1, h), c)
             hi == AddDigits(SubSeq(a, h + 1, Len(a)), SubSeq(b, h + 1, Len(a)), lo[2])
         IN  <<lo[1] \o hi[1], hi[2]>>

PadTo(a, n) == a \o [i \in 1 .. n - Len(a) |-> 0]

BigAdd(a, b) ==
    IF b = <<>> THEN a
    ELSE IF a = <<>> THEN b
    ELSE LET n == IF Len(a) > Len(b) THEN Len(a) ELSE Len(b)
             r == AddDigits(PadTo(a, n), PadTo(b, n), 0)
         IN  IF r[2] = 0 THEN r[1] ELSE Append(r[1], r[2])

\* a * m + c for a digit sequence of length n >= 1, a digit m and a carry c
RECURSIVE MulDigits(_, _, _)
MulDigits(a, m, c) ==
    IF Len(a) = 1
    THEN << <<(a[1] * m + c) % Radix>>, (a[1] * m + c) \div Radix >>
    ELSE LET h == Len(a) \div 2
             lo == MulDigits(SubSeq(a, 1, h), m, c)
             hi == MulDigits(SubSeq(a, h + 1, Len(a)), m, lo[2])
         IN  <<lo[1] \o hi[1], hi[2]>>

BigMulDigit(a, m) ==
    IF a = <<>> \/ m = 0 THEN <<>>
    ELSE LET r == MulDigits(a, m, 0)
         IN  IF r[2] = 0 THEN r[1] ELSE Append(r[1], r[2])

\* a * b, one digit of a at a time
RECURSIVE BigMul(_, _)
BigMul(a, b) ==
    IF a = <<>> \/ b = <<>> THEN <<>>
    ELSE LET high == BigMul(Tail(a), b)
         IN  BigAdd(BigMulDigit(b, Head(a)), IF high = <<>> THEN <<>> ELSE <<0>> \o high)

\* -1, 0, 1 as a < b, a = b, a > b, for digit sequences of one length; the high
\* half decides unless it is equal
RECURSIVE CmpDigits(_, _)
CmpDigits(a, b) ==
    IF a = b THEN 0
    ELSE IF Len(a) = 1 THEN (IF a[1] < b[1] THEN -1 ELSE 1)
    ELSE LET h == Len(a) \div 2
             top == CmpDigits(SubSeq(a, h + 1, Len(a)), SubSeq(b, h + 1, Len(a)))
         IN  IF top # 0 THEN top ELSE CmpDigits(SubSeq(a, 1, h), SubSeq(b, 1, h))

BigLess(a, b) ==
    IF Len(a) # Len(b) THEN Len(a) < Len(b) ELSE CmpDigits(a, b) = -1

Zeros(n) == [i \in 1 .. n |-> 0]

RECURSIVE Canon(_)
Canon(x) ==
    IF x.d = <<>> THEN [k |-> 0, d |-> <<>>]
    ELSE IF x.k > 0 /\ Head(x.d) = 0 THEN Canon([k |-> x.k - 1, d |-> Tail(x.d)])
    ELSE x

\* the digits of x with f >= x.k fractional digits
Aligned(x, f) == IF x.d = <<>> THEN <<>> ELSE Zeros(f - x.k) \o x.d

MaxK(x, y) == IF x.k > y.k THEN x.k ELSE y.k

NumOfNat(n) == [k |-> 0, d |-> BigOfNat(n)]

\* p / q for q a divisor of 3600: every decimal literal of the program
Ratio(p, q) == Canon([k |-> 1, d |-> BigOfNat(p * (Radix \div q))])

NumAdd(x, y) ==
    Canon([k |-> MaxK(x, y),
           d |-> BigAdd(Aligned(x, MaxK(x, y)), Aligned(y, MaxK(x, y)))])

NumMul(x, y) ==
    Canon([k |-> x.k + y.k,
           d |-> IF Len(x.d) <= Len(y.d) THEN BigMul(x.d, y.d) ELSE BigMul(y.d, x.d)])

\* x / q for q a divisor of 3600
NumDiv(x, q) == NumMul(x, Ratio(1, q))

NumLess(x, y) == BigLess(Aligned(x, MaxK(x, y)), Aligned(y, MaxK(x, y)))

Increments == {NumOfNat(0), Ratio(1, 10)}

\* the values a direct call of the projector is given
ProjAmounts == Amounts \cup {1}
ProjIncrements == Increments \cup {Ratio(1, 2)}

----------------------------------------------------------------------------
(* InvestmentAdvisor.calculate_investment_returns *)

MonthsPerYear == 12

None == <<>>
Some(x) == <<x>>

annual_return_rates ==
    << [asset |-> "stocks", rate |-> Ratio(10, 100)],
       [asset |-> "bonds", rate |-> Ratio(5, 100)],
       [asset |-> "cash", rate |-> Ratio(2, 100)] >>

\* a faulty variant of FixedReturns: each rate is applied to the running total
RECURSIVE FixedReturnsCompounded(_, _, _, _)
FixedReturnsCompounded(total, amt, period, i) ==
    IF i > Len(annual_return_rates) THEN total
    ELSE FixedReturnsCompounded(
            NumAdd(total, NumMul(NumMul(total, annual_return_rates[i].rate),
                                 NumOfNat(period))),
            amt, period, i + 1)

\* a faulty variant of FixedReturns: the yearly return is added once, whatever the period
RECURSIVE FixedReturnsOnce(_, _, _, _)
FixedReturnsOnce(total, amt, period, i) ==
    IF i > Len(annual_return_rates) THEN total
    ELSE FixedReturnsOnce(
            NumAdd(total, NumMul(amt, annual_return_rates[i].rate)),
            amt, period, i + 1)

\* for asset, rate in ...: total_amount += (amount * rate) * time_period
RECURSIVE FixedReturns(_, _, _, _)
FixedReturns(total, amt, period, i) ==
    IF i > Len(annual_return_rates) THEN total
    ELSE FixedReturns(
            NumAdd(total, NumMul(NumMul(amt, annual_return_rates[i].rate),
                                 NumOfNat(period))),
            amt, period, i + 1)

\* for asset, rate in ...: total_amount += total_amount * (rate / 12)
RECURSIVE ApplyReturns(_, _)
ApplyReturns(total, i) ==
    IF i > Len(annual_return_rates) THEN total
    ELSE ApplyReturns(
            NumAdd(total, NumMul(total, NumDiv(annual_return_rates[i].rate, MonthsPerYear))),
            i + 1)

\* a faulty variant of MonthStep: the returns are applied before the contribution
MonthStepReturnsFirst(total, monthly) == NumAdd(ApplyReturns(total, 1), monthly)

\* one pass of the month loop body
MonthStep(total, monthly) == ApplyReturns(NumAdd(total, monthly), 1)

\* current_monthly *= (1 + monthly_increment)
RaiseMonthly(monthly, inc) == NumMul(monthly, NumAdd(NumOfNat(1), inc))

\* m passes of the month loop body: the first m \div 2 of them, then the rest
RECURSIVE MonthLoop(_, _, _)
MonthLoop(total, monthly, m) ==
    IF m = 0 THEN total
    ELSE IF m = 1 THEN MonthStep(total, monthly)
    ELSE CHOOSE r \in {MonthLoop(t, monthly, m - m \div 2) :
                            t \in {MonthLoop(total, monthly, m \div 2)}} : TRUE

\* 'floating': years passes of the year loop, from the locals <<total, monthly>>
RECURSIVE FloatingLoop(_, _, _, _)
FloatingLoop(total, monthly, years, inc) ==
    IF years = 0 THEN total
    ELSE CHOOSE r \in {FloatingLoop(st[1], st[2], years - 1, inc) :
                            st \in {<<MonthLoop(total, monthly, MonthsPerYear),
                                      RaiseMonthly(monthly, inc)>>}} : TRUE

\* 'fixed-float': years passes of the year loop
RECURSIVE FixedFloatLoop(_, _, _)
FixedFloatLoop(total, monthly, years) ==
    IF years = 0 THEN total
    ELSE CHOOSE r \in {FixedFloatLoop(t, monthly, years - 1) :
                            t \in {MonthLoop(total, monthly, MonthsPerYear)}} : TRUE

\* the value the call returns: Some(number), or None when no branch is taken
calculate_investment_returns(amt, period, type, inc) ==
    CASE type = "fixed" ->
            Some(FixedReturns(NumOfNat(amt), NumOfNat(amt), period, 1))
      [] type = "floating" ->
            Some(FloatingLoop(NumOfNat(amt), NumDiv(NumOfNat(amt), MonthsPerYear), period, inc))
      [] type = "fixed-float" ->
            Some(FixedFloatLoop(NumOfNat(amt), NumDiv(NumOfNat(amt), MonthsPerYear), period))
      [] OTHER -> None

----------------------------------------------------------------------------
(* InvestmentAdvisor.__init__: the tables of the engine *)

RiskProfileTable ==
    [t \in {"conservative", "moderate", "aggressive"} |->
        CASE t = "conservative" ->
                [stocks |-> Ratio(2, 10), bonds |-> Ratio(6, 10), cash |-> Ratio(2, 10)]
          [] t = "moderate" ->
                [stocks |-> Ratio(5, 10), bonds |-> Ratio(4, 10), cash |-> Ratio(1, 10)]
          [] t = "aggressive" ->
                [stocks |-> Ratio(8, 10), bonds |-> Ratio(15, 100), cash |-> Ratio(5, 100)]]

IndianStocks ==
    [large_cap |->
        << [symbol |-> "RELIANCE.NS", name |-> "Reliance Industries"],
           [symbol |-> "TCS.NS", name |-> "Tata Consultancy Services"],
           [symbol |-> "HDFCBANK.NS", name |-> "HDFC Bank"],
           [symbol |-> "INFY.NS", name |-> "Infosys"],
           [symbol |-> "ICICIBANK.NS", name |-> "ICICI Bank"] >>,
     mid_cap |->
        << [symbol |-> "GODREJPROP.NS", name |-> "Godrej Properties"],
           [symbol |-> "TATAELXSI.NS", name |-> "Tata Elxsi"],
           [symbol |-> "MPHASIS.NS", name |-> "Mphasis"] >>]

MutualFunds ==
    [equity |->
        << [code |-> "INF179K01BE2", name |-> "Axis Bluechip Fund Direct Growth", risk |-> "moderate"],
           [code |-> "INF090I01LD9", name |-> "ICICI Prudential Bluechip Fund Direct Plan Growth", risk |-> "moderate"],
           [code |-> "INF209K01BR9", name |-> "Mirae Asset Large Cap Fund Direct Plan Growth", risk |-> "moderate"] >>,
     debt |->
        << [code |-> "INF209K01NS1", name |-> "Mirae Asset Short Term Fund Direct Growth", risk |-> "conservative"],
           [code |-> "INF090I01XG8", name |-> "ICICI Prudential Corporate Bond Fund Direct Plan Growth", risk |-> "conservative"] >>,
     hybrid |->
        << [code |-> "INF846K01940", name |-> "DSP Equity & Bond Fund Direct Plan Growth", risk |-> "moderate"],
           [code |-> "INF179K01CH2", name |-> "Axis Triple Advantage Fund Direct Growth", risk |-> "aggressive"] >>]

Bonds ==
    [govt |->
        << [name |-> "7.37% GS 2028", yield |-> Ratio(737, 100), maturity |-> 2028],
           [name |-> "7.26% GS 2029", yield |-> Ratio(726, 100), maturity |-> 2029],
           [name |-> "6.79% GS 2027", yield |-> Ratio(679, 100), maturity |-> 2027] >>,
     corporate |->
        << [name |-> "HDFC 7.95% 2025", yield |-> Ratio(795, 100), maturity |-> 2025],
           [name |-> "LIC Housing 7.85% 2026", yield |-> Ratio(785, 100), maturity |-> 2026] >>]

\* get_usd_inr_rate: the value returned when the fetch raises
DefaultUsdInr == 83

\* seq[:n]
Prefix(seq, n) == SubSeq(seq, 1, IF n < Len(seq) THEN n ELSE Len(seq))

Symbols(entries) == [i \in 1 .. Len(entries) |-> entries[i].symbol]

----------------------------------------------------------------------------
(* InvestmentAdvisor.get_investment_advice: selection and assembly *)

\* a faulty variant of SelectStocks: the mid-cap symbols come first
SelectStocksMidFirst(stocks, risk) ==
    IF risk = "conservative" THEN Symbols(Prefix(stocks.large_cap, 2))
    ELSE IF risk = "moderate"
         THEN Symbols(Prefix(stocks.mid_cap, 1)) \o Symbols(Prefix(stocks.large_cap, 3))
         ELSE Symbols(Prefix(stocks.mid_cap, 2)) \o Symbols(Prefix(stocks.large_cap, 3))

\* stock_symbols, from the engine's indian_stocks
SelectStocks(stocks, risk) ==
    IF risk = "conservative" THEN Symbols(Prefix(stocks.large_cap, 2))
    ELSE IF risk = "moderate"
         THEN Symbols(Prefix(stocks.large_cap, 3)) \o Symbols(Prefix(stocks.mid_cap, 1))
         ELSE Symbols(Prefix(stocks.large_cap, 3)) \o Symbols(Prefix(stocks.mid_cap, 2))

SelectFunds(funds, risk) ==
    IF risk = "conservative" THEN Prefix(funds.debt, 2) \o Prefix(funds.hybrid, 1)
    ELSE IF risk = "moderate"
         THEN Prefix(funds.equity, 2) \o Prefix(funds.debt, 1) \o Prefix(funds.hybrid, 1)
         ELSE Prefix(funds.equity, 3) \o Prefix(funds.hybrid, 1)

SelectBonds(bnds, risk) ==
    IF risk = "conservative" THEN Prefix(bnds.govt, 2) \o Prefix(bnds.corporate, 1)
    ELSE IF risk = "moderate"
         THEN Prefix(bnds.govt, 1) \o Prefix(bnds.corporate, 1)
         ELSE Prefix(bnds.corporate, 1)

\* next(stock['name'] for stock in large_cap + mid_cap if stock['symbol'] == symbol)
NameOf(stocks, symbol) ==
    LET all == stocks.large_cap \o stocks.mid_cap
        first == CHOOSE i \in 1 .. Len(all) :
                    /\ all[i].symbol = symbol
                    /\ \A j \in 1 .. i - 1 : all[j].symbol # symbol
    IN  all[first].name

\* stock_data.get(symbol, {}).get('price', 0)
PriceOf(data, symbol) ==
    IF symbol \in DOMAIN data THEN data[symbol].price ELSE NumOfNat(0)

StockRecommendations(stocks, symbols, data) ==
    [i \in 1 .. Len(symbols) |->
        [name |-> NameOf(stocks, symbols[i]),
         symbol |-> symbols[i],
         current_price |-> PriceOf(data, symbols[i])]]

\* a faulty variant of FundsShare
FundsShareHalf == Ratio(5, 10)

\* the share of the bonds bucket given to mutual funds, and to direct bonds
FundsShare == Ratio(6, 10)
BondsShare == Ratio(4, 10)

AssetAllocation(amt, allocation, stocks, symbols, data, funds, bnds) ==
    [stocks |->
        [percentage |-> allocation.stocks,
         amount |-> NumMul(amt, allocation.stocks),
         recommendations |-> StockRecommendations(stocks, symbols, data)],
     mutual_funds |->
        [percentage |-> NumMul(allocation.bonds, FundsShare),
         amount |-> NumMul(NumMul(amt, allocation.bonds), FundsShare),
         recommendations |-> funds],
     bonds |->
        [percentage |-> NumMul(allocation.bonds, BondsShare),
         amount |-> NumMul(NumMul(amt, allocation.bonds), BondsShare),
         recommendations |-> bnds],
     cash |->
        [percentage |-> allocation.cash,
         amount |-> NumMul(amt, allocation.cash),
         recommendation |-> "High-yield savings account or liquid funds"]]

\* a faulty variant of Recommendations: the classes are sized from the projected value
RecommendationsOfProjected(amt, period, type, risk, expected, profiles, stocks, funds, bnds, symbols, data) ==
    [total_expected_value |-> expected,
     asset_allocation |->
        AssetAllocation(IF expected = None THEN NumOfNat(amt) ELSE expected[1],
                        profiles[risk], stocks, symbols, data,
                        SelectFunds(funds, risk), SelectBonds(bnds, risk)),
     investment_type |-> type,
     time_period |-> period,
     risk_profile |-> risk]

\* the dictionary get_investment_advice returns
Recommendations(amt, period, type, risk, expected, profiles, stocks, funds, bnds, symbols, data) ==
    [total_expected_value |-> expected,
     asset_allocation |->
        AssetAllocation(NumOfNat(amt), profiles[risk], stocks, symbols, data,
                        SelectFunds(funds, risk), SelectBonds(bnds, risk)),
     investment_type |-> type,
     time_period |-> period,
     risk_profile |-> risk]

----------------------------------------------------------------------------
(* InvestmentAdvisor.explain_investment_strategy *)

\* str.title() on the tags the request carries
Title(tag) ==
    CASE tag = "conservative" -> "Conservative"
      [] tag = "moderate" -> "Moderate"
      [] tag = "aggressive" -> "Aggressive"
      [] tag = "speculative" -> "Speculative"
      [] OTHER -> tag

\* the two numbers a section's text embeds: percentage * 100 and the amount
Embedded(class) == <<NumMul(class.percentage, NumOfNat(100)), class.amount>>

\* the sections of the strategy; of each text, the values read from the advice
explain_investment_strategy(advice, risk) ==
    [overview |-> Title(risk),
     stocks |-> Embedded(advice.asset_allocation.stocks),
     mutual_funds |-> Embedded(advice.asset_allocation.mutual_funds),
     bonds |-> Embedded(advice.asset_allocation.bonds),
     cash |-> Embedded(advice.asset_allocation.cash),
     risk_management |-> "fixed text",
     monitoring |-> "fixed text"]

----------------------------------------------------------------------------
(* The state before any request, and before any call of the projector *)

NoArgs ==
    /\ amount = 0 /\ time_period = 0 /\ investment_type = "" /\ risk_tolerance = ""
    /\ monthly_increment = NumOfNat(0)

NoProjection ==
    /\ ppc = "none" /\ total_amount = NumOfNat(0) /\ current_monthly = NumOfNat(0)
    /\ year = 0 /\ month = 0 /\ returned = None

NoEngine ==
    /\ risk_profiles = <<>> /\ usd_to_inr_rate = NumOfNat(0)
    /\ indian_stocks = <<>> /\ mutual_funds = <<>> /\ bonds = <<>>

NoRequest ==
    /\ pc = "idle" /\ expected_return = None /\ stock_symbols = <<>> /\ sym_i = 0
    /\ stock_data = <<>> /\ response = <<>> /\ events = <<>> /\ answers = <<>>

----------------------------------------------------------------------------
(* calculate_investment_returns as a process: one action per pass of its   *)
(* month loop                                                              *)

ProjInit ==
    /\ amount \in ProjAmounts /\ time_period \in Periods /\ investment_type \in Models
    /\ risk_tolerance = "" /\ monthly_increment \in ProjIncrements
    /\ ppc = "call" /\ total_amount = NumOfNat(0) /\ current_monthly = NumOfNat(0)
    /\ year = 0 /\ month = 0 /\ returned = None
    /\ NoEngine /\ NoRequest

\* the 'fixed' branch, whole
ProjFixed ==
    /\ ppc = "call" /\ investment_type = "fixed"
    /\ total_amount' = FixedReturns(NumOfNat(amount), NumOfNat(amount), time_period, 1)
    /\ returned' = Some(total_amount')
    /\ ppc' = "returned"
    /\ UNCHANGED <<current_monthly, year, month, argvars, engvars, reqvars>>

\* total_amount = amount; current_monthly = amount / 12 (monthly_amount in 'fixed-float')
ProjEnterLoop ==
    /\ ppc = "call" /\ investment_type \in {"floating", "fixed-float"}
    /\ total_amount' = NumOfNat(amount)
    /\ current_monthly' = NumDiv(NumOfNat(amount), MonthsPerYear)
    /\ year' = 0 /\ month' = 0
    /\ ppc' = "loop"
    /\ UNCHANGED <<returned, argvars, engvars, reqvars>>

\* one pass of 'for month in range(12)'
ProjMonth ==
    /\ ppc = "loop" /\ year < time_period /\ month < MonthsPerYear
    /\ total_amount' = MonthStep(total_amount, current_monthly)
    /\ month' = month + 1
    /\ UNCHANGED <<ppc, current_monthly, year, returned, argvars, engvars, reqvars>>

\* the end of one pass of 'for year in range(time_period)'
ProjYearEnd ==
    /\ ppc = "loop" /\ year < time_period /\ month = MonthsPerYear
    /\ current_monthly' = IF investment_type = "floating"
                          THEN RaiseMonthly(current_monthly, monthly_increment)
                          ELSE current_monthly
    /\ year' = year + 1 /\ month' = 0
    /\ UNCHANGED <<ppc, total_amount, returned, argvars, engvars, reqvars>>

\* return total_amount
ProjReturn ==
    /\ ppc = "loop" /\ year = time_period
    /\ returned' = Some(total_amount)
    /\ ppc' = "returned"
    /\ UNCHANGED <<total_amount, current_monthly, year, month, argvars, engvars, reqvars>>

\* no branch matches: the function ends without a return statement
ProjFallThrough ==
    /\ ppc = "call" /\ investment_type \notin {"fixed", "floating", "fixed-float"}
    /\ returned' = None
    /\ ppc' = "returned"
    /\ UNCHANGED <<total_amount, current_monthly, year, month, argvars, engvars, reqvars>>

ProjNext ==
    \/ ProjFixed
    \/ ProjEnterLoop
    \/ ProjMonth
    \/ ProjYearEnd
    \/ ProjReturn
    \/ ProjFallThrough

ProjSpec == ProjInit /\ [][ProjNext]_vars

----------------------------------------------------------------------------
(* The market data source (yfinance): what one fetch can come back with *)

\* Ticker("INR=X").history(period='1d'): raises, or has a last Close
FxOutcomes == {[kind |-> "raise"], [kind |-> "rate", rate |-> 84]}

QuotePrices == {1510, 2975}

\* Ticker(symbol).history(period='1d'): raises, is empty, or has a last Close and Volume
QuoteOutcomes ==
    {[kind |-> "raise"], [kind |-> "empty"]}
        \cup {[kind |-> "data", price |-> NumOfNat(p), volume |-> 1000] : p \in QuotePrices}

\* what the source answered, as the request's record keeps it: the price, or that
\* there was none
Answer(outcome) ==
    IF outcome.kind = "data" THEN [ok |-> TRUE, price |-> outcome.price]
    ELSE [ok |-> FALSE, price |-> NumOfNat(0)]

\* get_usd_inr_rate, once its fetch has come back
UsdInrRate(outcome) ==
    IF outcome.kind = "rate" THEN NumOfNat(outcome.rate) ELSE NumOfNat(DefaultUsdInr)

\* a faulty variant of StoreQuote: a failed fetch loses what was stored before it
StoreQuoteDropping(data, symbol, outcome) ==
    IF outcome.kind = "data"
    THEN [s \in DOMAIN data \cup {symbol} |->
            IF s = symbol THEN [price |-> outcome.price, volume |-> outcome.volume]
            ELSE data[s]]
    ELSE <<>>

\* get_indian_market_data, one pass of its loop once the fetch has come back
StoreQuote(data, symbol, outcome) ==
    IF outcome.kind = "data"
    THEN [s \in DOMAIN data \cup {symbol} |->
            IF s = symbol THEN [price |-> outcome.price, volume |-> outcome.volume]
            ELSE data[s]]
    ELSE data

----------------------------------------------------------------------------
(* POST /api/calculate (app.calculate): one request at a time.  events is  *)
(* the record of what the request has done so far, in order.               *)

Init == NoArgs /\ NoProjection /\ NoEngine /\ NoRequest

\* the request arrives with its four required fields; InvestmentAdvisor() starts:
\* risk_profiles is set and get_usd_inr_rate sends its fetch
Calculate ==
    /\ pc = "idle"
    /\ amount' \in Amounts /\ time_period' \in Periods /\ investment_type' \in Models
    /\ risk_tolerance' \in RiskTags /\ monthly_increment' \in Increments
    /\ risk_profiles' = RiskProfileTable
    /\ usd_to_inr_rate' = NumOfNat(0)
    /\ indian_stocks' = <<>> /\ mutual_funds' = <<>> /\ bonds' = <<>>
    /\ expected_return' = None /\ stock_symbols' = <<>> /\ sym_i' = 0
    /\ stock_data' = <<>> /\ response' = <<>>
    /\ events' = <<"fx_fetch">> /\ answers' = <<>>
    /\ pc' = "fx_wait"
    /\ UNCHANGED projvars

\* a required field is missing (or there is no body): abort(400) inside the try,
\* which the handler's own except turns into a 500 answer
CalculateMissingField ==
    /\ pc = "idle"
    /\ amount' = 0 /\ time_period' = 0 /\ investment_type' = "" /\ risk_tolerance' = ""
    /\ monthly_increment' = NumOfNat(0)
    /\ risk_profiles' = <<>> /\ usd_to_inr_rate' = NumOfNat(0)
    /\ indian_stocks' = <<>> /\ mutual_funds' = <<>> /\ bonds' = <<>>
    /\ expected_return' = None /\ stock_symbols' = <<>> /\ sym_i' = 0
    /\ stock_data' = <<>> /\ events' = <<>> /\ answers' = <<>>
    /\ response' = [status |-> 500, error |-> "400 Bad Request"]
    /\ pc' = "responded"
    /\ UNCHANGED projvars

\* the currency fetch comes back; __init__ stores the rate and the catalog
FxReturn ==
    /\ pc = "fx_wait"
    /\ \E outcome \in FxOutcomes : usd_to_inr_rate' = UsdInrRate(outcome)
    /\ indian_stocks' = IndianStocks
    /\ mutual_funds' = MutualFunds
    /\ bonds' = Bonds
    /\ pc' = "constructed"
    /\ UNCHANGED <<risk_profiles, argvars, projvars, expected_return, stock_symbols,
                   sym_i, stock_data, response, events, answers>>

\* get_investment_advice up to its first quote fetch: the projection, the profile
\* lookup (a KeyError for an unknown tag, answered 500 by the handler) and the
\* selection of the symbols
GetAdvice ==
    /\ pc = "constructed"
    /\ expected_return' =
            calculate_investment_returns(amount, time_period, investment_type, monthly_increment)
    /\ IF risk_tolerance \notin DOMAIN risk_profiles
       THEN /\ events' = events \o <<"project", "profile_lookup">>
            /\ response' = [status |-> 500, error |-> "KeyError"]
            /\ pc' = "responded"
            /\ UNCHANGED <<stock_symbols, sym_i>>
       ELSE /\ stock_symbols' = SelectStocks(indian_stocks, risk_tolerance)
            /\ sym_i' = 1
            /\ events' = events \o <<"project", "profile_lookup", "catalog_lookup", "quote_fetch">>
            /\ pc' = "quote_wait"
            /\ UNCHANGED response
    /\ UNCHANGED <<stock_data, answers, argvars, projvars, engvars>>

\* the fetch of stock_symbols[sym_i] comes back; the loop of get_indian_market_data
\* moves on to the next symbol
QuoteReturn ==
    /\ pc = "quote_wait" /\ sym_i < Len(stock_symbols)
    /\ \E outcome \in QuoteOutcomes :
            /\ stock_data' = StoreQuote(stock_data, stock_symbols[sym_i], outcome)
            /\ answers' = Append(answers, Answer(outcome))
    /\ sym_i' = sym_i + 1
    /\ events' = Append(events, "quote_fetch")
    /\ UNCHANGED <<pc, expected_return, stock_symbols, response, argvars, projvars, engvars>>

\* the fetch of the last symbol comes back: get_investment_advice assembles its
\* result, explain_investment_strategy reads it and the handler answers
QuoteReturnLast ==
    /\ pc = "quote_wait" /\ sym_i = Len(stock_symbols)
    /\ \E outcome \in QuoteOutcomes :
            /\ stock_data' = StoreQuote(stock_data, stock_symbols[sym_i], outcome)
            /\ answers' = Append(answers, Answer(outcome))
    /\ LET advice == Recommendations(amount, time_period, investment_type, risk_tolerance,
                                     expected_return, risk_profiles, indian_stocks,
                                     mutual_funds, bonds, stock_symbols, stock_data')
       IN  response' = [status |-> 200, advice |-> advice,
                        strategy |-> explain_investment_strategy(advice, risk_tolerance)]
    /\ events' = Append(events, "catalog_lookup")
    /\ pc' = "responded"
    /\ UNCHANGED <<expected_return, stock_symbols, sym_i, argvars, projvars, engvars>>

\* the handler has returned its answer: the advisor and the locals of the request
\* are dropped and the next request can arrive
Finish ==
    /\ pc = "responded"
    /\ amount' = 0 /\ time_period' = 0 /\ investment_type' = "" /\ risk_tolerance' = ""
    /\ monthly_increment' = NumOfNat(0)
    /\ risk_profiles' = <<>> /\ usd_to_inr_rate' = NumOfNat(0)
    /\ indian_stocks' = <<>> /\ mutual_funds' = <<>> /\ bonds' = <<>>
    /\ expected_return' = None /\ stock_symbols' = <<>> /\ sym_i' = 0
    /\ stock_data' = <<>> /\ response' = <<>> /\ events' = <<>> /\ answers' = <<>>
    /\ pc' = "idle"
    /\ UNCHANGED projvars

Next ==
    \/ Calculate
    \/ CalculateMissingField
    \/ FxReturn
    \/ GetAdvice
    \/ QuoteReturn
    \/ QuoteReturnLast
    \/ Finish

Spec == Init /\ [][Next]_vars

\* the request flow with the scheduling the program itself provides: the handler
\* runs its own code to the end, while nothing in the code bounds the wait for an
\* answer of the data source (FxReturn, QuoteReturn, QuoteReturnLast) and nothing
\* makes a request arrive
LiveSpec == Init /\ [][Next]_vars /\ WF_vars(GetAdvice) /\ WF_vars(Finish)

----------------------------------------------------------------------------
(* Properties of the request flow: errors *)

\* what a call of get_investment_advice does: the entries of events it can add
CallEvents == {"project", "profile_lookup", "catalog_lookup", "quote_fetch"}

\* C1: a call with a risk tag outside conservative, moderate, aggressive fails with
\* InvalidRiskProfileError, and when it fails no projector call, no catalog lookup
\* and no market-data request has been made for it
C1_UnknownRiskFailsFirst ==
    (pc \in {"quote_wait", "responded"} /\ risk_tolerance \in RiskTags \ KnownRiskTags) =>
        /\ pc = "responded"
        /\ response.status # 200
        /\ response.error = "InvalidRiskProfileError"
        /\ \A i \in 1 .. Len(events) :
                events[i] \notin {"project", "catalog_lookup", "quote_fetch"}

\* C2: a call of the projector with a tag outside fixed, floating, fixed-float
\* raises; it never returns a value
C2_UnknownModelRaises ==
    (ppc # "call" /\ investment_type \in Models \ KnownModels) => ppc = "raised"

\* C3: a request with amount <= 0 or years <= 0 is answered with InvalidAmountError
\* or InvalidPeriodError before anything has been fetched or computed for it
C3_NonPositiveRejectedFirst ==
    (pc # "idle" /\ investment_type \in Models /\ (amount <= 0 \/ time_period <= 0)) =>
        /\ pc = "responded"
        /\ response.status # 200
        /\ response.error = (IF amount <= 0 THEN "InvalidAmountError" ELSE "InvalidPeriodError")
        /\ events = <<>>

----------------------------------------------------------------------------
(* Properties of the request flow: quotes *)

\* C4: a call with a known risk tag returns its result whatever fetches failed; the
\* stock list has every selected symbol in selection order, priced 0 where the
\* fetch raised or came back empty and priced as the source answered elsewhere
C4_FailedQuotesPricedZero ==
    (pc = "responded" /\ risk_tolerance \in KnownRiskTags) =>
        /\ response.status = 200
        /\ LET recs == response.advice.asset_allocation.stocks.recommendations
           IN  /\ Len(recs) = Len(stock_symbols)
               /\ Len(answers) = Len(stock_symbols)
               /\ \A i \in 1 .. Len(stock_symbols) :
                    /\ recs[i].symbol = stock_symbols[i]
                    /\ recs[i].current_price =
                            (IF answers[i].ok THEN answers[i].price ELSE NumOfNat(0))

\* an aggressive request whose first and last fetch failed and whose second did not
C4_SomeQuotesFailed ==
    /\ pc = "responded" /\ risk_tolerance = "aggressive"
    /\ response.status = 200
    /\ Len(answers) = 5
    /\ ~ answers[1].ok /\ answers[2].ok /\ ~ answers[5].ok
    /\ response.advice.asset_allocation.stocks.recommendations[1].current_price = NumOfNat(0)
    /\ response.advice.asset_allocation.stocks.recommendations[2].current_price = NumOfNat(2975)

\* C5: a call that waits for the data source ends: the handler answers
C5_CallCompletes ==
    (pc = "fx_wait" \/ pc = "quote_wait") ~> (pc = "responded")

----------------------------------------------------------------------------
(* Properties of the request flow: the allocation *)

Classes == {"stocks", "mutual_funds", "bonds", "cash"}

\* C6: each of the three profiles has shares that sum to exactly 1, and the four
\* class percentages of a returned result sum to 1 (shares are unsigned numbers
\* here, so that none is negative is not a separate statement)
C6_SharesSumToOne ==
    /\ pc \in {"fx_wait", "constructed", "quote_wait"} =>
            /\ DOMAIN risk_profiles = KnownRiskTags
            /\ \A t \in KnownRiskTags :
                    NumAdd(NumAdd(risk_profiles[t].stocks, risk_profiles[t].bonds),
                           risk_profiles[t].cash) = NumOfNat(1)
    /\ (pc = "responded" /\ response.status = 200) =>
            LET a == response.advice.asset_allocation
            IN  NumAdd(NumAdd(a.stocks.percentage, a.mutual_funds.percentage),
                       NumAdd(a.bonds.percentage, a.cash.percentage)) = NumOfNat(1)

\* an aggressive request has been answered with its result
C6_AggressiveAnswered ==
    /\ pc = "responded" /\ risk_tolerance = "aggressive" /\ amount = 7
    /\ response.status = 200
    /\ response.advice.asset_allocation.mutual_funds.percentage = Ratio(9, 100)

\* C7: stocks and cash carry the profile's shares, mutual funds 0.6 and bonds 0.4 of
\* the profile's bonds share; each class amount is its percentage times the amount
\* of the request; (100000, fixed, moderate, 0) gives 0.5/50000, 0.24/24000,
\* 0.16/16000 and 0.1/10000
C7_ClassSharesAndAmounts ==
    (pc = "responded" /\ response.status = 200) =>
        LET a == response.advice.asset_allocation
            profile == RiskProfileTable[risk_tolerance]
        IN  /\ a.stocks.percentage = profile.stocks
            /\ a.cash.percentage = profile.cash
            /\ a.mutual_funds.percentage = NumMul(Ratio(6, 10), profile.bonds)
            /\ a.bonds.percentage = NumMul(Ratio(4, 10), profile.bonds)
            /\ \A c \in Classes : a[c].amount = NumMul(a[c].percentage, NumOfNat(amount))
            /\ (amount = 100000 /\ risk_tolerance = "moderate") =>
                    /\ a.stocks.percentage = Ratio(5, 10)
                    /\ a.stocks.amount = NumOfNat(50000)
                    /\ a.mutual_funds.percentage = Ratio(24, 100)
                    /\ a.mutual_funds.amount = NumOfNat(24000)
                    /\ a.bonds.percentage = Ratio(16, 100)
                    /\ a.bonds.amount = NumOfNat(16000)
                    /\ a.cash.percentage = Ratio(1, 10)
                    /\ a.cash.amount = NumOfNat(10000)

\* the request (100000, fixed, moderate, 0) has been answered, and its projected
\* value is not the amount
C7_ModerateExampleAnswered ==
    /\ pc = "responded" /\ response.status = 200
    /\ amount = 100000 /\ investment_type = "fixed" /\ risk_tolerance = "moderate"
    /\ monthly_increment = NumOfNat(0) /\ time_period = MaxYears
    /\ response.advice.total_expected_value # Some(NumOfNat(amount))
    /\ response.advice.asset_allocation.bonds.amount = NumOfNat(16000)

----------------------------------------------------------------------------
(* Properties of the projector *)

\* C8: 'fixed' returns amount + amount * 0.17 * years whatever the increment: the
\* amount itself for 0 years, and 117000 for (100000, 1)
C8_FixedIsSimpleGrowth ==
    (ppc = "returned" /\ investment_type = "fixed") =>
        /\ returned = Some(NumAdd(NumOfNat(amount),
                                  NumMul(NumMul(NumOfNat(amount), Ratio(17, 100)),
                                         NumOfNat(time_period))))
        /\ time_period = 0 => returned = Some(NumOfNat(amount))
        /\ (amount = 100000 /\ time_period = 1) => returned = Some(NumOfNat(117000))

\* project(100000, 1, fixed, 0) has returned 117000
C8_FixedExampleReturned ==
    /\ ppc = "returned" /\ investment_type = "fixed"
    /\ amount = 100000 /\ time_period = 1 /\ monthly_increment = NumOfNat(0)
    /\ returned = Some(NumOfNat(117000))

\* what the 'floating' loop keeps outside its month step, as C9 states it: the
\* contribution starts at amount / 12, a month leaves it alone, and the end of a
\* year multiplies it by 1 + monthly_increment and leaves the total alone
FloatingContributionRule ==
    /\ ProjEnterLoop =>
            /\ total_amount' = NumOfNat(amount)
            /\ current_monthly' = NumMul(NumOfNat(amount), Ratio(1, 12))
    /\ ProjMonth => current_monthly' = current_monthly /\ month < 12
    /\ ProjYearEnd =>
            /\ month = 12
            /\ current_monthly' = NumMul(current_monthly, NumAdd(NumOfNat(1), monthly_increment))
            /\ total_amount' = total_amount

C10_MoreYearsReturnMore ==
    (ppc = "returned" /\ investment_type \in KnownModels /\ amount > 0 /\ time_period >= 1) =>
        NumLess(calculate_investment_returns(amount, time_period - 1, investment_type,
                                             monthly_increment)[1],
                returned[1])

\* a 'floating' call over the longest period has returned
C10_LongFloatingReturned ==
    /\ ppc = "returned" /\ investment_type = "floating"
    /\ amount = 7 /\ time_period = MaxYears /\ monthly_increment = Ratio(1, 2)
    /\ returned # None

----------------------------------------------------------------------------
(* Properties of the request flow: the selection *)

\* how many large-cap and mid-cap symbols C11 gives each risk tag
LargeCapCount(risk) == IF risk = "conservative" THEN 2 ELSE 3
MidCapCount(risk) == IF risk = "conservative" THEN 0 ELSE IF risk = "moderate" THEN 1 ELSE 2

\* C11: the selected symbols are the first 2 large-cap for conservative, the first
\* 3 large-cap then the first mid-cap for moderate, the first 3 large-cap then the
\* first 2 mid-cap for aggressive, in the catalog's order: a list fixed by the risk
\* tag alone, whatever the amount, years, model, increment and quotes
C11_SelectionIsCatalogPrefix ==
    (pc \in {"quote_wait", "responded"} /\ risk_tolerance \in KnownRiskTags) =>
        LET nl == LargeCapCount(risk_tolerance)
            nm == MidCapCount(risk_tolerance)
        IN  /\ Len(stock_symbols) = nl + nm
            /\ \A i \in 1 .. nl : stock_symbols[i] = indian_stocks.large_cap[i].symbol
            /\ \A i \in 1 .. nm : stock_symbols[nl + i] = indian_stocks.mid_cap[i].symbol
            /\ stock_symbols =
                    (CASE risk_tolerance = "conservative" ->
                            <<"RELIANCE.NS", "TCS.NS">>
                       [] risk_tolerance = "moderate" ->
                            <<"RELIANCE.NS", "TCS.NS", "HDFCBANK.NS", "GODREJPROP.NS">>
                       [] risk_tolerance = "aggressive" ->
                            <<"RELIANCE.NS", "TCS.NS", "HDFCBANK.NS", "GODREJPROP.NS",
                              "TATAELXSI.NS">>)
            /\ (pc = "responded" /\ response.status = 200) =>
                    LET recs == response.advice.asset_allocation.stocks.recommendations
                    IN  [i \in 1 .. Len(recs) |-> recs[i].symbol] = stock_symbols

\* a moderate request has been answered with its four symbols, some of them quoted
C11_ModerateSelected ==
    /\ pc = "responded" /\ risk_tolerance = "moderate" /\ response.status = 200
    /\ amount = 7 /\ investment_type = "floating"
    /\ Len(stock_symbols) = 4 /\ stock_symbols[4] = "GODREJPROP.NS"
    /\ answers[4].ok /\ ~ answers[1].ok

----------------------------------------------------------------------------
(* One InvestmentAdvisor used for several calls: get_investment_advice,    *)
(* calculate_investment_returns and explain_investment_strategy called on  *)
(* the same object, one call at a time                                     *)

\* how many calls of get_investment_advice the object receives
MaxCalls == 2

\* the arguments of these calls
EngAmounts == {0, 100000}
EngPeriods == {1}
EngIncrements == {NumOfNat(0)}

\* what the record keeps of the calls that have returned: the fetches of the rate,
\* and one entry for each returned call
IsFxFetch(e) == e = "fx_fetch"
IsReturned(e) == e = "returned"
IsLifetimeEvent(e) == IsFxFetch(e) \/ IsReturned(e)

\* InvestmentAdvisor() has set risk_profiles and sent the fetch of the rate; the
\* arguments of the first call are already chosen
EngInit ==
    /\ amount \in EngAmounts /\ time_period \in EngPeriods /\ investment_type \in Models
    /\ risk_tolerance \in RiskTags /\ monthly_increment \in EngIncrements
    /\ NoProjection
    /\ risk_profiles = RiskProfileTable /\ usd_to_inr_rate = NumOfNat(0)
    /\ indian_stocks = <<>> /\ mutual_funds = <<>> /\ bonds = <<>>
    /\ pc = "fx_wait" /\ expected_return = None /\ stock_symbols = <<>> /\ sym_i = 0
    /\ stock_data = <<>> /\ response = <<>> /\ answers = <<>>
    /\ events = <<"fx_fetch">>

\* a faulty variant of NextCall: the call fetches the rate again on entry
NextCallRefetching ==
    /\ pc = "responded"
    /\ Len(SelectSeq(events, IsReturned)) + 1 < MaxCalls
    /\ amount' \in EngAmounts /\ time_period' \in EngPeriods /\ investment_type' \in Models
    /\ risk_tolerance' \in RiskTags /\ monthly_increment' \in EngIncrements
    /\ expected_return' = None /\ stock_symbols' = <<>> /\ sym_i' = 0
    /\ stock_data' = <<>> /\ response' = <<>> /\ answers' = <<>>
    /\ returned' = None
    /\ events' = SelectSeq(events, IsLifetimeEvent) \o <<"returned", "fx_fetch">>
    /\ \E outcome \in FxOutcomes : usd_to_inr_rate' = UsdInrRate(outcome)
    /\ pc' = "constructed"
    /\ UNCHANGED <<risk_profiles, indian_stocks, mutual_funds, bonds,
                   ppc, total_amount, current_monthly, year, month>>

\* the previous call has returned (a result, or the KeyError); the next call of
\* get_investment_advice on the same object starts, with its own arguments and
\* fresh locals.  __init__ is not run again, and no method assigns to self
NextCall ==
    /\ pc = "responded"
    /\ Len(SelectSeq(events, IsReturned)) + 1 < MaxCalls
    /\ amount' \in EngAmounts /\ time_period' \in EngPeriods /\ investment_type' \in Models
    /\ risk_tolerance' \in RiskTags /\ monthly_increment' \in EngIncrements
    /\ expected_return' = None /\ stock_symbols' = <<>> /\ sym_i' = 0
    /\ stock_data' = <<>> /\ response' = <<>> /\ answers' = <<>>
    /\ returned' = None
    /\ events' = Append(SelectSeq(events, IsLifetimeEvent), "returned")
    /\ pc' = "constructed"
    /\ UNCHANGED <<engvars, ppc, total_amount, current_monthly, year, month>>

\* calculate_investment_returns called on the object directly, before the call of
\* get_investment_advice: it reads its arguments and nothing of self
ProjectCall ==
    /\ pc = "constructed" /\ returned = None
    /\ returned' = calculate_investment_returns(amount, time_period, investment_type,
                                                monthly_increment)
    /\ UNCHANGED <<ppc, total_amount, current_monthly, year, month, argvars, engvars, reqvars>>

\* explain_investment_strategy called again on the advice just returned, with any
\* risk tag: it reads its arguments and nothing of self
ExplainCall ==
    /\ pc = "responded" /\ response.status = 200
    /\ \E tag \in RiskTags :
            response' = [response EXCEPT
                            !.strategy = explain_investment_strategy(response.advice, tag)]
    /\ UNCHANGED <<pc, expected_return, stock_symbols, sym_i, stock_data, events, answers,
                   argvars, projvars, engvars>>

EngNext ==
    \/ FxReturn
    \/ GetAdvice
    \/ QuoteReturn
    \/ QuoteReturnLast
    \/ NextCall
    \/ ProjectCall
    \/ ExplainCall

EngineSpec == EngInit /\ [][EngNext]_vars

\* C12: once the object is constructed, no step of any call changes the catalog,
\* the risk-profile table or the stored rate, which keep their values of
\* construction; the rate is fetched once, at construction
C12_EngineStateIsFrozen ==
    [][/\ risk_profiles' = RiskProfileTable
       /\ Len(SelectSeq(events', IsFxFetch)) = 1
       /\ pc # "fx_wait" =>
            /\ risk_profiles' = risk_profiles
            /\ usd_to_inr_rate' = usd_to_inr_rate
            /\ indian_stocks' = indian_stocks /\ indian_stocks' = IndianStocks
            /\ mutual_funds' = mutual_funds /\ mutual_funds' = MutualFunds
            /\ bonds' = bonds /\ bonds' = Bonds]_vars

\* the object is in its second call of get_investment_advice, which has returned
\* with a failed fetch after a direct call of the projector, and the strategy has
\* been explained again under another tag; the first call has returned too
C12_SecondCallReturned ==
    /\ pc = "responded" /\ response.status = 200
    /\ Len(SelectSeq(events, IsReturned)) = 1
    /\ returned # None
    /\ risk_tolerance = "conservative" /\ response.strategy.overview = "Aggressive"
    /\ ~ answers[1].ok /\ answers[2].ok
    /\ usd_to_inr_rate = NumOfNat(84)

=============================================================================
